---- MODULE Spec2Model ----
(***************************************************************************)
(* A model of src/Txtreplacement.py: the TextReplacer engine (rolling      *)
(* buffer, shortcut matching, erase-then-paste replacement, listener       *)
(* lifecycle) and the part of the GUI that mutates the shortcut table.     *)
(*                                                                         *)
(* A text (trigger, buffer, expansion, clipboard content) is a sequence of *)
(* strings read in order.  Triggers and the buffer are sequences of single *)
(* characters; an expansion may hold longer chunks, but every whitespace   *)
(* character of it is an element of its own.                               *)
(***************************************************************************)
EXTENDS Integers, Sequences, FiniteSets, TLC

\* ---------------------------------------------------------------- bounds
MaxKeys == 3          \* length of the freely chosen key scripts
MaxListeners == 2     \* start_listener calls in one run
MaxClock == 2         \* clock ticks in one run
TicksPerDay == 2      \* clock ticks that make one calendar day
MaxQueue == 2         \* key events a listener thread may have pending
MaxFired == 2         \* replacements performed in one run
MaxGuiOps == 1        \* table operations started in the GUI in one run
MaxTable == 3         \* longest table a GUI operation may start from
LongLen == 53         \* length of the long key scripts (more than the capacity)

\* ------------------------------------------------------ program constants
max_buffer_length == 50

\* ------------------------------------------------------------- key events
\* pynput hands on_press either a KeyCode (it has the attribute char, which
\* is None for keys that produce no character) or a member of the enum Key
\* (no attribute char: reading it raises AttributeError).
KeyCode(c) == [cls |-> "KeyCode", char |-> c, name |-> ""]
Key(n) == [cls |-> "Key", char |-> "", name |-> n]
KeyCodeNone == KeyCode("")

\* hasattr(key, 'char')
HasAttrChar(key) == key.cls = "KeyCode"

\* The keys of the characters of a text, as the platform delivers them:
\* space, enter and tab arrive as members of Key, any other character as a
\* KeyCode carrying it.
KeyOf(c) ==
    CASE c = " " -> Key("space")
      [] c = "\n" -> Key("enter")
      [] c = "\t" -> Key("tab")
      [] OTHER -> KeyCode(c)

KeysOf(text) == [i \in 1..Len(text) |-> KeyOf(text[i])]

\* ------------------------------------------------------------------ texts
\* str.endswith
EndsWith(s, t) ==
    /\ Len(t) <= Len(s)
    /\ SubSeq(s, Len(s) - Len(t) + 1, Len(s)) = t

\* s[-n:] for n > 0
LastChars(s, n) == IF Len(s) > n THEN SubSeq(s, Len(s) - n + 1, Len(s)) ELSE s

IsSpace(c) == c \in {" ", "\n", "\t"}

\* str.strip
RECURSIVE LStrip(_)
LStrip(s) == IF s # <<>> /\ IsSpace(Head(s)) THEN LStrip(Tail(s)) ELSE s

RECURSIVE RStrip(_)
RStrip(s) ==
    IF s # <<>> /\ IsSpace(s[Len(s)]) THEN RStrip(SubSeq(s, 1, Len(s) - 1)) ELSE s

Strip(s) == RStrip(LStrip(s))

\* datetime.now().strftime("%Y-%m-%d") and ("%H:%M:%S") at clock value c
StrftimeDate(c) == <<"date-" \o ToString(c \div TicksPerDay)>>
StrftimeTime(c) == <<"time-" \o ToString(c % TicksPerDay)>>

\* ------------------------------------------------------- the shortcut table
\* self.replacements is a dict: insertion-ordered, keys unique.  It is a
\* sequence of entries with pairwise different shortcuts.
Entry(s, r) == [shortcut |-> s, replacement |-> r]

Shortcuts(table) == {table[i].shortcut : i \in 1..Len(table)}

\* list(table): the keys in iteration order
ShortcutSeq(table) == [i \in 1..Len(table) |-> table[i].shortcut]

IndexOf(table, s) == CHOOSE i \in 1..Len(table) : table[i].shortcut = s

\* A faulty variant: an entry written again moves to the end of the table.
DictSetAtEnd(table, s, r) ==
    SelectSeq(table, LAMBDA e : e.shortcut # s) \o << Entry(s, r) >>

\* table[s] = r
DictSet(table, s, r) ==
    IF s \in Shortcuts(table)
    THEN [table EXCEPT ![IndexOf(table, s)].replacement = r]
    ELSE Append(table, Entry(s, r))

\* del table[s]
DictDel(table, s) ==
    LET i == IndexOf(table, s)
    IN SubSeq(table, 1, i - 1) \o SubSeq(table, i + 1, Len(table))

T_today == <<"t", "o", "d", "a", "y">>
T_time == <<"t", "i", "m", "e">>
T_tgif == <<"t", "g", "i", "f">>

DefaultReplacements(c) ==
    << Entry(<<"@", "@">>, <<"steve@workperfect.io">>),
       Entry(<<"m", "y", "n", "a", "m", "e">>, <<"Steve Derviniotis">>),
       Entry(<<"w", "p">>, <<"Work Perfect">>),
       Entry(T_tgif, <<"Thank God It's Friday!">>),
       Entry(<<"a", "d", "d", "r">>, <<"Adelaide, South Australia">>),
       Entry(<<"s", "i", "g">>,
             <<"Best regards,", "\n", "Steve Derviniotis", "\n",
               "Head of Customer Success", "\n", "Work Perfect">>),
       Entry(T_today, StrftimeDate(c)),
       Entry(T_time, StrftimeTime(c)) >>

\* What the configuration file may hold: nothing ("absent"), text json.load
\* rejects ("corrupt"), or a JSON object of strings ("json").
Absent == [kind |-> "absent", table |-> <<>>]
Corrupt == [kind |-> "corrupt", table |-> <<>>]
JsonFile(table) == [kind |-> "json", table |-> table]

ConfigTables ==
    { << Entry(<<"a", "b">>, <<"X">>), Entry(<<"b">>, <<"Y">>) >>,
      << Entry(<<"b">>, <<"Y">>), Entry(<<"a", "b">>, <<"X">>) >>,
      << Entry(T_tgif, <<"Thank God It's Friday!">>) >>,
      << Entry(<<"@", "@">>, <<"a@b.com">>) >>,
      << Entry(T_today, <<"stored">>) >>,
      << Entry(<<"a", " ", "b">>, <<"X">>), Entry(<<"b">>, <<"Y">>) >>,
      << Entry(<<"a", "b">>, <<"X">>), Entry(<<"a">>, <<"W">>) >>,
      << Entry(<<>>, <<"E">>) >> }

ConfigFiles == {Absent, Corrupt} \cup {JsonFile(t) : t \in ConfigTables}

VARIABLES
    replacements,   \* TextReplacer.replacements
    config_file,    \* the content of the file at TextReplacer.config_file
    buffer,         \* TextReplacer.buffer
    running,        \* TextReplacer.running
    listener,       \* TextReplacer.listener: index into listeners, 0 for None
    listeners,      \* every Listener created so far, with its thread
    clipboard,      \* the system clipboard
    restores,       \* the restore_clipboard threads that have not run yet
    clock,          \* the system clock
    dialog,         \* the ReplacementDialog that is open, if any
    gui_ops,        \* the table operations the user has started in the GUI
    actions,        \* history: the platform actions emitted, in order
    fired,          \* history: the replacements performed, in order
    pasted,         \* history: the texts pasted into the input target
    dispatched,     \* history: the on_press invocations, in order
    typed,          \* history: the key events the platform delivered
    raised          \* history: the exceptions raised, and whether caught

vars == << replacements, config_file, buffer, running, listener, listeners,
           clipboard, restores, clock, dialog, gui_ops, actions, fired, pasted,
           dispatched, typed, raised >>

\* ------------------------------------------------------ configuration store
\* save_replacements: json.dump to the file; an exception is only printed.
\* ok tells whether the write went through.
save_replacements(table, file, ok) == IF ok THEN JsonFile(table) ELSE file

\* load_replacements, the table: the file's object, the defaults when there
\* is no file, the empty dict when loading raises.
load_replacements(file, c) ==
    CASE file.kind = "absent" -> DefaultReplacements(c)
      [] file.kind = "corrupt" -> <<>>
      [] OTHER -> file.table

\* ------------------------------------------------------------ input buffer
\* A faulty variant: the buffer is never cut.
AppendCharNoEvict(buf, c) == buf \o <<c>>

\* A faulty variant: the cut keeps the oldest characters, buffer[:max_buffer_length].
AppendCharKeepFirst(buf, c) ==
    LET b == buf \o <<c>>
    IN IF Len(b) > max_buffer_length THEN SubSeq(b, 1, max_buffer_length) ELSE b

\* on_press, lines 73-77: append the character, keep the last
\* max_buffer_length characters.
AppendChar(buf, c) ==
    LET b == buf \o <<c>>
    IN IF Len(b) > max_buffer_length THEN LastChars(b, max_buffer_length) ELSE b

\* ------------------------------------------------------------- match engine
\* The loop of check_replacements from entry i on: the index of the entry
\* perform_replacement is called for, 0 when the loop ends without a match.
RECURSIVE ScanFrom(_, _, _)
ScanFrom(buf, table, i) ==
    IF i > Len(table) THEN 0
    ELSE IF EndsWith(buf, table[i].shortcut) THEN i
    ELSE ScanFrom(buf, table, i + 1)

\* A faulty variant: the last matching entry wins.
check_replacements_last(buf, table) ==
    LET M == { i \in 1..Len(table) : EndsWith(buf, table[i].shortcut) }
    IN IF M = {} THEN 0 ELSE CHOOSE i \in M : \A j \in M : j <= i

check_replacements(buf, table) == ScanFrom(buf, table, 1)

\* ------------------------------------------------------ replacement executor
\* A faulty variant: the stored string is inserted for every shortcut.
ResolveStored(shortcut, replacement, c) == replacement

\* perform_replacement, lines 103-106: the text to insert.
ResolveReplacement(shortcut, replacement, c) ==
    IF shortcut = T_today THEN StrftimeDate(c)
    ELSE IF shortcut = T_time THEN StrftimeTime(c)
    ELSE replacement

\* One win32api.keybd_event down + up pair.
Pulse(vk) == << [op |-> "down", arg |-> <<vk>>], [op |-> "up", arg |-> <<vk>>] >>

\* A faulty variant: one pulse too few, range(len(shortcut) - 1).
BackspacesOneLess(n) ==
    [k \in 1..(2 * (n - 1)) |-> Pulse("BACK")[2 - (k % 2)]]

\* perform_replacement, lines 112-115: len(shortcut) backspace pulses.
RECURSIVE Backspaces(_)
Backspaces(n) == IF n = 0 THEN <<>> ELSE Pulse("BACK") \o Backspaces(n - 1)

\* pyperclip.copy(text)
Copy(text) == << [op |-> "copy", arg |-> text] >>

\* type_text, lines 138-141: Ctrl down, V down, V up, Ctrl up.
PasteCombination ==
    << [op |-> "down", arg |-> <<"CTRL">>], [op |-> "down", arg |-> <<"V">>],
       [op |-> "up", arg |-> <<"V">>], [op |-> "up", arg |-> <<"CTRL">>] >>

\* ------------------------------------------------------------------- state
\* warning: the last "Invalid Input" box the dialog has shown.
NoDialog ==
    [open |-> FALSE, mode |-> "", shortcut |-> <<>>, shortcut_var |-> <<>>,
     replacement_text |-> <<>>, warning |-> ""]

\* pc: where the thread of the listener is in on_press.  pos, keys: the
\* iterator of the for loop of check_replacements.  shortcut, text: the
\* arguments of the perform_replacement in progress.
NewListener ==
    [alive |-> TRUE, queue |-> <<>>, pc |-> "idle", old_clipboard |-> <<>>,
     pos |-> 0, keys |-> <<>>, shortcut |-> <<>>, text |-> <<>>]

Init ==
    /\ clock = 0
    /\ \E file \in ConfigFiles, ok \in BOOLEAN :
          /\ replacements = load_replacements(file, clock)
          /\ config_file = IF file = Absent
                           THEN save_replacements(replacements, file, ok)
                           ELSE file
          /\ (file # Absent) => ok
    /\ buffer = <<>>
    /\ running = FALSE
    /\ listener = 0
    /\ listeners = <<>>
    /\ clipboard = <<"user">>
    /\ restores = <<>>
    /\ dialog = NoDialog
    /\ gui_ops = 0
    /\ actions = <<>>
    /\ fired = <<>>
    /\ pasted = <<>>
    /\ dispatched = <<>>
    /\ typed = <<>>
    /\ raised = <<>>

\* ---------------------------------------------------------------- lifecycle
\* start_listener: a new Listener each time; the previous one is neither
\* stopped nor kept.
start_listener ==
    /\ Len(listeners) < MaxListeners
    /\ running' = TRUE
    /\ listeners' = Append(listeners, NewListener)
    /\ listener' = Len(listeners) + 1
    /\ UNCHANGED << replacements, config_file, buffer, clipboard, restores,
                    clock, dialog, gui_ops, actions, fired, pasted, dispatched,
                    typed, raised >>

\* stop_listener: stops the Listener self.listener names, if any.  A stopped
\* listener takes no further event; a callback it is in runs to its end.
stop_listener ==
    /\ running' = FALSE
    /\ listeners' = IF listener = 0 THEN listeners
                    ELSE [listeners EXCEPT ![listener].alive = FALSE,
                                           ![listener].queue = <<>>]
    /\ UNCHANGED << replacements, config_file, buffer, listener, clipboard,
                    restores, clock, dialog, gui_ops, actions, fired, pasted,
                    dispatched, typed, raised >>

\* ------------------------------------------------------- platform capture
\* The key scripts a run may type.  Inputs: every script of MaxKeys keys
\* over FreeKeys.
FreeKeys == { KeyCode("a"), KeyCode("b"), Key("space"), Key("backspace") }

Inputs == [1..MaxKeys -> FreeKeys]

Scenarios ==
    { KeysOf(T_tgif \o <<" ">>),
      KeysOf(<<"x", "@", "@">>),
      KeysOf(<<"@", "@", " ">>),
      KeysOf(T_today \o <<" ">> \o T_today),
      KeysOf(T_time \o T_time),
      KeysOf(<<"a", " ", "b", " ">>),
      KeysOf(<<"a", "b", " ">>),
      << KeyCode("a"), Key("backspace"), Key("tab"), KeyCodeNone, Key("shift"),
         Key("enter"), KeyCode("b") >> }

\* The long scripts: a short pattern of printable characters, repeated.
Patterns == { <<"x">>, <<"x", "y">>, <<"a", "x", "b">> }

Repeat(p, n) == [i \in 1..n |-> KeyCode(p[((i - 1) % Len(p)) + 1])]

LongInputs == { Repeat(p, LongLen) : p \in Patterns }

TypingInputs == Scenarios \cup LongInputs \cup Inputs

\* The scripts typed while the table is edited.
GuiInputs == { KeysOf(<<"a", "b">>), KeysOf(<<"b", "b">>) }

\* The keys that may follow the keys typed so far within a script of S.
NextKeys(S) ==
    { s[Len(typed) + 1] :
        s \in { t \in S : Len(t) > Len(typed) /\ SubSeq(t, 1, Len(typed)) = typed } }

Alive == { l \in 1..Len(listeners) : listeners[l].alive }

\* The platform delivers a key press: every running listener gets it.
KeyPress(S) ==
    /\ Alive # {}
    /\ \A l \in Alive : Len(listeners[l].queue) < MaxQueue
    /\ \E key \in NextKeys(S) :
          /\ typed' = Append(typed, key)
          /\ listeners' = [l \in 1..Len(listeners) |->
                              IF listeners[l].alive
                              THEN [listeners[l] EXCEPT !.queue = Append(@, key)]
                              ELSE listeners[l]]
    /\ UNCHANGED << replacements, config_file, buffer, running, listener,
                    clipboard, restores, clock, dialog, gui_ops, actions, fired,
                    pasted, dispatched, raised >>

Tick ==
    /\ clock < MaxClock
    /\ clock' = clock + 1
    /\ UNCHANGED << replacements, config_file, buffer, running, listener,
                    listeners, clipboard, restores, dialog, gui_ops, actions,
                    fired, pasted, dispatched, typed, raised >>

\* --------------------------------------------------------- event dispatcher
\* on_press, line 71: the test of the if.  Evaluating it raises nothing:
\* hasattr guards the read of key.char.
IsPrintable(key) == HasAttrChar(key) /\ key.char # ""

IsWordBoundary(key) == key \in { Key("space"), Key("enter"), Key("tab") }

\* A faulty variant: the table is consulted on word-boundary keys only.
MatchOnBoundaryOnly(key, buf, table) ==
    IF IsWordBoundary(key) THEN check_replacements(buf, table) ELSE 0

\* on_press, line 80: check_replacements is called, on the buffer with the
\* character appended, when the key carries a character; the index of the
\* entry it performs, 0 for none.
MatchOnPress(key, buf, table) ==
    IF IsPrintable(key) THEN check_replacements(buf, table) ELSE 0

\* on_press, from the call by the listener thread to its return, or to the
\* time.sleep(0.1) of type_text when a replacement is performed.  The except
\* AttributeError clause (lines 82-89) runs only when the try body raises
\* AttributeError; for a member of Key the test of the if is False, nothing
\* is raised and the handler returns.
on_press(l) ==
    /\ l \in Alive
    /\ listeners[l].pc = "idle"
    /\ listeners[l].queue # <<>>
    /\ LET key == Head(listeners[l].queue)
           buf == IF IsPrintable(key) THEN AppendChar(buffer, key.char) ELSE buffer
           i == MatchOnPress(key, buf, replacements)
       IN /\ (i # 0) => (Len(fired) < MaxFired)
          /\ dispatched' = Append(dispatched,
                                 [listener |-> l, key |-> key, running |-> running])
          /\ IF i = 0
             THEN /\ buffer' = buf
                  /\ listeners' = [listeners EXCEPT ![l].queue = Tail(@)]
                  /\ UNCHANGED << clipboard, actions, fired >>
             ELSE \* perform_replacement, then type_text up to its sleep
                  LET shortcut == replacements[i].shortcut
                      text == ResolveReplacement(shortcut,
                                                 replacements[i].replacement, clock)
                  IN /\ buffer' = <<>>
                     /\ actions' = actions \o Backspaces(Len(shortcut)) \o Copy(text)
                     /\ clipboard' = text
                     /\ listeners' = [listeners EXCEPT
                                         ![l].queue = Tail(@),
                                         ![l].pc = "paste",
                                         ![l].old_clipboard = clipboard]
                     /\ fired' = Append(fired,
                                        [listener |-> l, n |-> Len(dispatched) + 1,
                                         index |-> i, shortcut |-> shortcut,
                                         buffer |-> buf, table |-> replacements,
                                         text |-> text])
    /\ UNCHANGED << replacements, config_file, running, listener, restores,
                    clock, dialog, gui_ops, pasted, typed, raised >>

\* type_text after its sleep: the paste combination, then the thread that
\* will restore the clipboard; on_press returns.
type_text_paste(l) ==
    /\ l \in 1..Len(listeners)
    /\ listeners[l].pc = "paste"
    /\ actions' = actions \o PasteCombination
    /\ pasted' = Append(pasted, clipboard)
    /\ restores' = Append(restores, listeners[l].old_clipboard)
    /\ listeners' = [listeners EXCEPT ![l].pc = "idle", ![l].old_clipboard = <<>>]
    /\ UNCHANGED << replacements, config_file, buffer, running, listener,
                    clipboard, clock, dialog, gui_ops, fired, dispatched, typed, raised >>

\* restore_clipboard, after its sleep: pyperclip.copy(old_clipboard).
restore_clipboard(i) ==
    /\ i \in 1..Len(restores)
    /\ clipboard' = restores[i]
    /\ restores' = SubSeq(restores, 1, i - 1) \o SubSeq(restores, i + 1, Len(restores))
    /\ UNCHANGED << replacements, config_file, buffer, running, listener,
                    listeners, clock, dialog, gui_ops, actions, fired, pasted,
                    dispatched, typed, raised >>

\* ------------------------------------------------ the handler, step by step
\* The same on_press, from one call that other threads can tell apart to the
\* next: the turns of the loop of check_replacements, the platform calls of
\* perform_replacement and type_text, and the exceptions these calls raise.

\* The exception a failing call raises: win32api.keybd_event, pyperclip.paste,
\* pyperclip.copy, and the next() of the dict iterator when the dict changed
\* size during the iteration.
Raises(call) ==
    CASE call = "keybd_event" -> "pywintypes.error"
      [] call = "paste" -> "PyperclipException"
      [] call = "copy" -> "PyperclipException"
      [] call = "next" -> "RuntimeError"

\* on_press, line 82: except AttributeError.
ExceptAttributeError(exc) == exc = "AttributeError"

\* A faulty variant: a clause that names one class, except OSError.
ExceptOSError(exc) == exc = "OSError"

\* perform_replacement, line 120, and type_text, line 153: except Exception.
ExceptException(exc) ==
    exc \in { "AttributeError", "RuntimeError", "PyperclipException",
              "pywintypes.error" }

\* An exception raised within perform_replacement or type_text meets their
\* except Exception first, then the except AttributeError of on_press.
CaughtInReplacement(exc) == ExceptException(exc) \/ ExceptAttributeError(exc)

\* An exception raised by the for statement of check_replacements meets the
\* except AttributeError of on_press only.
CaughtInScan(exc) == ExceptAttributeError(exc)

\* The listener once on_press has returned.
Returned(rec) ==
    [rec EXCEPT !.pc = "idle", !.old_clipboard = <<>>, !.pos = 0,
                !.keys = <<>>, !.shortcut = <<>>, !.text = <<>>]

\* The listener once an exception has left on_press: the listener stops and
\* its thread ends.
Dead(rec) == [Returned(rec) EXCEPT !.alive = FALSE, !.queue = <<>>]

AfterRaise(rec, caught) == IF caught THEN Returned(rec) ELSE Dead(rec)

\* The on_press invocation listener l is in.
LastDispatchOf(l) ==
    CHOOSE k \in 1..Len(dispatched) :
        /\ dispatched[k].listener = l
        /\ \A j \in (k + 1)..Len(dispatched) : dispatched[j].listener # l

Exception(l, call, caught) ==
    [listener |-> l, n |-> IF l = 0 THEN 0 ELSE LastDispatchOf(l),
     call |-> call, exc |-> Raises(call), caught |-> caught]

\* A faulty variant: the buffer is left as it is.
perform_replacement_keep(buf) == buf

\* perform_replacement, line 109: self.buffer = "".
perform_replacement_clear(buf) == <<>>

\* on_press, lines 70-80, to the for statement of check_replacements: the
\* character is appended and the iterator over the table is created.  For a
\* key without a character on_press returns.
on_press_enter(l) ==
    /\ l \in Alive
    /\ listeners[l].pc = "idle"
    /\ listeners[l].queue # <<>>
    /\ LET key == Head(listeners[l].queue)
       IN /\ dispatched' = Append(dispatched,
                                 [listener |-> l, key |-> key, running |-> running])
          /\ IF IsPrintable(key)
             THEN /\ buffer' = AppendChar(buffer, key.char)
                  /\ listeners' = [listeners EXCEPT
                                      ![l].queue = Tail(@),
                                      ![l].pc = "scan",
                                      ![l].pos = 1,
                                      ![l].keys = ShortcutSeq(replacements)]
             ELSE /\ buffer' = buffer
                  /\ listeners' = [listeners EXCEPT ![l].queue = Tail(@)]
    /\ UNCHANGED << replacements, config_file, running, listener, clipboard,
                    restores, clock, dialog, gui_ops, actions, fired, pasted,
                    typed, raised >>

\* check_replacements, one turn of the for loop over a dict whose keys are
\* the ones the iterator started on: the loop ends, or the entry is tested
\* and, on a match, perform_replacement runs to line 109.  (A dict whose
\* keys changed while its size did not is left out.)
check_replacements_next(l) ==
    /\ l \in 1..Len(listeners)
    /\ listeners[l].pc = "scan"
    /\ ShortcutSeq(replacements) = listeners[l].keys
    /\ LET i == listeners[l].pos
       IN IF i > Len(replacements)
          THEN /\ listeners' = [listeners EXCEPT ![l] = Returned(@)]
               /\ UNCHANGED << buffer, fired >>
          ELSE IF ~EndsWith(buffer, replacements[i].shortcut)
          THEN /\ listeners' = [listeners EXCEPT ![l].pos = i + 1]
               /\ UNCHANGED << buffer, fired >>
          ELSE LET shortcut == replacements[i].shortcut
                   text == ResolveReplacement(shortcut,
                                              replacements[i].replacement, clock)
               IN /\ Len(fired) < MaxFired
                  /\ buffer' = perform_replacement_clear(buffer)
                  /\ listeners' = [listeners EXCEPT
                                      ![l].pc = "erase", ![l].pos = 0,
                                      ![l].keys = <<>>,
                                      ![l].shortcut = shortcut,
                                      ![l].text = text]
                  /\ fired' = Append(fired,
                                     [listener |-> l, n |-> LastDispatchOf(l),
                                      index |-> i, shortcut |-> shortcut,
                                      buffer |-> buffer, table |-> replacements,
                                      text |-> text])
    /\ UNCHANGED << replacements, config_file, running, listener, clipboard,
                    restores, clock, dialog, gui_ops, actions, pasted,
                    dispatched, typed, raised >>

\* check_replacements, a turn of the for loop after the dict changed size:
\* RuntimeError, which no handler on the way out of on_press catches.
check_replacements_raises(l) ==
    /\ l \in 1..Len(listeners)
    /\ listeners[l].pc = "scan"
    /\ Len(replacements) # Len(listeners[l].keys)
    /\ LET caught == CaughtInScan(Raises("next"))
       IN /\ raised' = Append(raised, Exception(l, "next", caught))
          /\ listeners' = [listeners EXCEPT ![l] = AfterRaise(@, caught)]
    /\ UNCHANGED << replacements, config_file, buffer, running, listener,
                    clipboard, restores, clock, dialog, gui_ops, actions, fired,
                    pasted, dispatched, typed >>

Calls == { "none", "keybd_event", "paste", "copy" }

\* perform_replacement, lines 112-118, and type_text to its sleep: the
\* backspace pulses, the snapshot of the clipboard, the copy of the text.
\* call is the call that fails, if one does: a keybd_event of the loop
\* (line 120 catches), pyperclip.paste (line 130 catches, the snapshot is
\* ""), or pyperclip.copy (line 153 catches).
perform_replacement_erase(l, call) ==
    /\ l \in 1..Len(listeners)
    /\ listeners[l].pc = "erase"
    /\ LET n == Len(listeners[l].shortcut)
           text == listeners[l].text
           caught == CaughtInReplacement(Raises(call))
       IN IF call \in { "none", "paste" }
          THEN /\ actions' = actions \o Backspaces(n) \o Copy(text)
               /\ clipboard' = text
               /\ listeners' = [listeners EXCEPT
                                   ![l].pc = "paste",
                                   ![l].old_clipboard =
                                       IF call = "paste" THEN <<>> ELSE clipboard,
                                   ![l].shortcut = <<>>,
                                   ![l].text = <<>>]
               /\ raised' = IF call = "paste"
                            THEN Append(raised, Exception(l, call, TRUE))
                            ELSE raised
          ELSE /\ IF call = "copy"
                  THEN actions' = actions \o Backspaces(n)
                  ELSE \E c \in 1..(2 * n) :
                          actions' = actions \o SubSeq(Backspaces(n), 1, c - 1)
               /\ clipboard' = clipboard
               /\ listeners' = [listeners EXCEPT ![l] = AfterRaise(@, caught)]
               /\ raised' = Append(raised, Exception(l, call, caught))
    /\ UNCHANGED << replacements, config_file, buffer, running, listener,
                    restores, clock, dialog, gui_ops, fired, pasted, dispatched,
                    typed >>

\* type_text after its sleep, when call c of the four keybd_event calls of
\* the paste combination raises: line 153 catches, no thread is started to
\* restore the clipboard.  The target has pasted once V went down.
type_text_paste_fails(l, c) ==
    /\ l \in 1..Len(listeners)
    /\ listeners[l].pc = "paste"
    /\ c \in 1..Len(PasteCombination)
    /\ LET caught == CaughtInReplacement(Raises("keybd_event"))
       IN /\ actions' = actions \o SubSeq(PasteCombination, 1, c - 1)
          /\ pasted' = IF c > 2 THEN Append(pasted, clipboard) ELSE pasted
          /\ raised' = Append(raised, Exception(l, "keybd_event", caught))
          /\ listeners' = [listeners EXCEPT ![l] = AfterRaise(@, caught)]
    /\ UNCHANGED << replacements, config_file, buffer, running, listener,
                    clipboard, restores, clock, dialog, gui_ops, fired,
                    dispatched, typed >>

\* restore_clipboard when its pyperclip.copy raises: line 149 catches.
restore_clipboard_fails(i) ==
    /\ i \in 1..Len(restores)
    /\ restores' = SubSeq(restores, 1, i - 1) \o SubSeq(restores, i + 1, Len(restores))
    /\ raised' = Append(raised, Exception(0, "copy", TRUE))
    /\ UNCHANGED << replacements, config_file, buffer, running, listener,
                    listeners, clipboard, clock, dialog, gui_ops, actions, fired,
                    pasted, dispatched, typed >>

\* ------------------------------------------------------ table management
\* Everything below runs on the GUI thread and leaves the engine's other
\* state alone.
GuiFrame ==
    UNCHANGED << buffer, running, listener, listeners, clipboard, restores,
                 clock, actions, fired, pasted, dispatched, typed, raised >>

\* What the user may put into the two fields of the dialog.
ShortcutInputs == { <<>>, <<" ">>, <<"b">>, <<" ", "a", "b", " ">> }
ReplacementInputs == { <<>>, <<"Z">> }

\* add_replacement up to dialog.wait_window(): the dialog opens, fields empty.
add_replacement ==
    /\ ~dialog.open
    /\ gui_ops < MaxGuiOps
    /\ gui_ops' = gui_ops + 1
    /\ dialog' = [open |-> TRUE, mode |-> "add", shortcut |-> <<>>,
                  shortcut_var |-> <<>>, replacement_text |-> <<>>,
                  warning |-> ""]
    /\ UNCHANGED << replacements, config_file >>
    /\ GuiFrame

\* edit_replacement up to dialog.wait_window(), row i of the tree selected:
\* the dialog opens on the entry's shortcut and replacement.
edit_replacement(i) ==
    /\ ~dialog.open
    /\ gui_ops < MaxGuiOps
    /\ i \in 1..Len(replacements)
    /\ gui_ops' = gui_ops + 1
    /\ dialog' = [open |-> TRUE, mode |-> "edit",
                  shortcut |-> replacements[i].shortcut,
                  shortcut_var |-> replacements[i].shortcut,
                  replacement_text |-> replacements[i].replacement,
                  warning |-> ""]
    /\ UNCHANGED << replacements, config_file >>
    /\ GuiFrame

\* The user fills in the fields of the open dialog.
dialog_type(s, r) ==
    /\ dialog.open
    /\ dialog' = [dialog EXCEPT !.shortcut_var = s, !.replacement_text = r,
                                !.warning = ""]
    /\ dialog' # dialog
    /\ UNCHANGED << replacements, config_file, gui_ops >>
    /\ GuiFrame

\* ok_clicked, line 468 and 469: the two fields, stripped.  Text.get
\* returns the text with a newline after it.
StrippedShortcut(d) == Strip(d.shortcut_var)
StrippedReplacement(d) == Strip(d.replacement_text \o <<"\n">>)

\* A faulty variant: the test of the shortcut is missing.
AcceptedAnyShortcut(d) == StrippedReplacement(d) # <<>>

\* ok_clicked, lines 471-477: the fields are accepted.
Accepted(d) == StrippedShortcut(d) # <<>> /\ StrippedReplacement(d) # <<>>

\* The table after add_replacement has its result: unchanged when the
\* shortcut exists and the user answers no.
AddResult(table, s, r, yes) ==
    IF s \in Shortcuts(table) /\ ~yes THEN table ELSE DictSet(table, s, r)

\* The table after edit_replacement has its result.
EditResult(table, old, s, r) ==
    DictSet(IF s # old THEN DictDel(table, old) ELSE table, s, r)

\* ok_clicked, and what the caller does once wait_window returns.  With a
\* field empty the warning is shown and the dialog stays open, no result.
ok_clicked(yes, ok) ==
    /\ dialog.open
    /\ IF ~Accepted(dialog)
       THEN /\ yes /\ ok
            /\ dialog' = [dialog EXCEPT !.warning =
                             IF StrippedShortcut(dialog) = <<>>
                             THEN "Shortcut cannot be empty."
                             ELSE "Replacement text cannot be empty."]
            /\ UNCHANGED << replacements, config_file >>
       ELSE LET s == StrippedShortcut(dialog)
                r == StrippedReplacement(dialog)
                declined == dialog.mode = "add" /\ s \in Shortcuts(replacements) /\ ~yes
                table == IF dialog.mode = "add"
                         THEN AddResult(replacements, s, r, yes)
                         ELSE EditResult(replacements, dialog.shortcut, s, r)
            IN /\ dialog' = NoDialog
               /\ (dialog.mode = "edit" \/ s \notin Shortcuts(replacements)) => yes
               /\ declined => ok
               /\ replacements' = table
               /\ config_file' = IF declined THEN config_file
                                 ELSE save_replacements(table, config_file, ok)
    /\ UNCHANGED gui_ops
    /\ GuiFrame

\* cancel_clicked: the dialog closes without a result.
cancel_clicked ==
    /\ dialog.open
    /\ dialog' = NoDialog
    /\ UNCHANGED << replacements, config_file, gui_ops >>
    /\ GuiFrame

\* delete_replacement, row i of the tree selected; yes is the answer to the
\* confirmation.
delete_replacement(i, yes, ok) ==
    /\ ~dialog.open
    /\ gui_ops < MaxGuiOps
    /\ i \in 1..Len(replacements)
    /\ gui_ops' = gui_ops + 1
    /\ IF yes
       THEN /\ replacements' = DictDel(replacements, replacements[i].shortcut)
            /\ config_file' = save_replacements(replacements', config_file, ok)
       ELSE /\ ok
            /\ UNCHANGED << replacements, config_file >>
    /\ UNCHANGED dialog
    /\ GuiFrame

\* ------------------------------------------------------------ specifications
Next ==
    \/ start_listener
    \/ stop_listener
    \/ KeyPress(Inputs)
    \/ \E l \in 1..MaxListeners : on_press(l)
    \/ \E l \in 1..MaxListeners : type_text_paste(l)
    \/ \E i \in 1..Len(restores) : restore_clipboard(i)

Spec == Init /\ [][Next]_vars

\* One listener, started once and never stopped, fed the scenarios and the
\* long scripts while the clock runs.
NextTyping ==
    \/ (listeners = <<>> /\ start_listener)
    \/ KeyPress(TypingInputs)
    \/ Tick
    \/ \E l \in 1..MaxListeners : on_press(l)
    \/ \E l \in 1..MaxListeners : type_text_paste(l)
    \/ \E i \in 1..Len(restores) : restore_clipboard(i)

SpecTyping == Init /\ [][NextTyping]_vars

\* One listener, started once, fed the short scripts while the user edits
\* the table.
NextGui ==
    \/ (listeners = <<>> /\ start_listener)
    \/ KeyPress(GuiInputs)
    \/ \E l \in 1..MaxListeners : on_press(l)
    \/ \E l \in 1..MaxListeners : type_text_paste(l)
    \/ \E i \in 1..Len(restores) : restore_clipboard(i)
    \/ add_replacement
    \/ \E i \in 1..MaxTable : edit_replacement(i)
    \/ \E s \in ShortcutInputs, r \in ReplacementInputs : dialog_type(s, r)
    \/ \E yes \in BOOLEAN, ok \in BOOLEAN : ok_clicked(yes, ok)
    \/ cancel_clicked
    \/ \E i \in 1..MaxTable, yes \in BOOLEAN, ok \in BOOLEAN :
          delete_replacement(i, yes, ok)

SpecGui == Init /\ [][NextGui]_vars

\* The scripts typed while platform calls fail.
FaultInputs == GuiInputs \cup { KeysOf(<<"a", "b", "b">>) }

\* One listener, started once, followed through on_press step by step
\* while calls to the platform and to the clipboard fail.
NextFaults ==
    \/ (listeners = <<>> /\ start_listener)
    \/ KeyPress(FaultInputs)
    \/ \E l \in 1..MaxListeners : on_press_enter(l)
    \/ \E l \in 1..MaxListeners : check_replacements_next(l)
    \/ \E l \in 1..MaxListeners, call \in Calls : perform_replacement_erase(l, call)
    \/ \E l \in 1..MaxListeners : type_text_paste(l)
    \/ \E l \in 1..MaxListeners, c \in 1..Len(PasteCombination) :
          type_text_paste_fails(l, c)
    \/ \E i \in 1..Len(restores) : restore_clipboard(i)
    \/ \E i \in 1..Len(restores) : restore_clipboard_fails(i)

SpecFaults == Init /\ [][NextFaults]_vars

\* One listener, started once, followed through on_press step by step
\* while the user adds and deletes entries.
NextScan ==
    \/ (listeners = <<>> /\ start_listener)
    \/ KeyPress(GuiInputs)
    \/ \E l \in 1..MaxListeners : on_press_enter(l)
    \/ \E l \in 1..MaxListeners : check_replacements_next(l)
    \/ \E l \in 1..MaxListeners : check_replacements_raises(l)
    \/ \E l \in 1..MaxListeners : perform_replacement_erase(l, "none")
    \/ \E l \in 1..MaxListeners : type_text_paste(l)
    \/ \E i \in 1..Len(restores) : restore_clipboard(i)
    \/ add_replacement
    \/ \E s \in ShortcutInputs, r \in ReplacementInputs : dialog_type(s, r)
    \/ \E yes \in BOOLEAN, ok \in BOOLEAN : ok_clicked(yes, ok)
    \/ cancel_clicked
    \/ \E i \in 1..MaxTable, yes \in BOOLEAN, ok \in BOOLEAN :
          delete_replacement(i, yes, ok)

SpecScan == Init /\ [][NextScan]_vars

\* ------------------------------------------------------------------ claims
DispatchedKeys == [k \in 1..Len(dispatched) |-> dispatched[k].key]

DispatchedChars == [k \in 1..Len(dispatched) |-> dispatched[k].key.char]

AllPrintable == \A k \in 1..Len(dispatched) : IsPrintable(dispatched[k].key)

\* Every key delivered so far has been handled, and every handler has returned.
Idle ==
    \A l \in 1..Len(listeners) :
        listeners[l].pc = "idle" /\ listeners[l].queue = <<>>

\* n backspace pulses: down, up, down, up, ...
BackspacePulses(n) ==
    [k \in 1..(2 * n) |->
        [op |-> IF k % 2 = 1 THEN "down" ELSE "up", arg |-> <<"BACK">>]]

Matching(buf, table) ==
    { j \in 1..Len(table) : EndsWith(buf, table[j].shortcut) }

\* C1: when on_press handles a printable key, the replacement it performs
\* is the one of the first entry, in table order, whose trigger is a suffix
\* of the buffer (none when no trigger is), and no key event performs more
\* than one replacement.
FirstMatchWins ==
    [][ Len(dispatched') > Len(dispatched) =>
          LET key == dispatched'[Len(dispatched')].key
              buf == AppendChar(buffer, key.char)
              M == Matching(buf, replacements)
          IN /\ Len(fired') <= Len(fired) + 1
             /\ IsPrintable(key) =>
                   IF M = {}
                   THEN fired' = fired /\ actions' = actions
                   ELSE /\ Len(fired') = Len(fired) + 1
                        /\ LET f == fired'[Len(fired')]
                           IN /\ f.index \in M
                              /\ \A j \in M : f.index <= j
                              /\ f.shortcut = replacements[f.index].shortcut
                              /\ actions' = actions
                                   \o BackspacePulses(Len(f.shortcut)) \o Copy(f.text)
      ]_vars

\* C1 witness: "ab" fired from a table in which the later entry "b" is a
\* suffix of the buffer too.
FirstMatchWinsWitness ==
    \E k \in 1..Len(fired) :
        /\ fired[k].shortcut = <<"a", "b">>
        /\ \E j \in (fired[k].index + 1)..Len(fired[k].table) :
              /\ fired[k].table[j].shortcut = <<"b">>
              /\ EndsWith(fired[k].buffer, fired[k].table[j].shortcut)

\* C2: the buffer never holds more than max_buffer_length characters.
CapacityInvariant == Len(buffer) <= max_buffer_length

\* C2 witness: the buffer is full after more keys than it can hold.
CapacityWitness ==
    Len(buffer) = max_buffer_length /\ Len(dispatched) > max_buffer_length

\* C3: after k printable keys from the empty buffer, none of which fired a
\* replacement, the buffer is the last min(k, max_buffer_length) characters
\* typed, in typing order.
OldestEvictedFirst ==
    (fired = <<>> /\ AllPrintable) =>
        buffer = LastChars(DispatchedChars, max_buffer_length)

\* C3 witness: a whole long script was handled without a replacement, so
\* characters were evicted.
OldestEvictedWitness ==
    /\ fired = <<>>
    /\ AllPrintable
    /\ Len(dispatched) = LongLen
    /\ buffer # DispatchedChars
    /\ buffer = SubSeq(DispatchedChars, LongLen - max_buffer_length + 1, LongLen)

TableAtAt == << Entry(<<"@", "@">>, <<"a@b.com">>) >>

\* C4: a completed trigger never waits in the buffer for a word boundary:
\* once a handler has returned, no non-empty trigger is a suffix of the
\* buffer; with the table {"@@": "a@b.com"} and the keys x, @, @ handled,
\* two backspace pulses and the insertion of "a@b.com" have been emitted.
ImmediateFire ==
    /\ \A i \in 1..Len(replacements) :
          replacements[i].shortcut # <<>> =>
              ~EndsWith(buffer, replacements[i].shortcut)
    /\ (replacements = TableAtAt /\ DispatchedKeys = KeysOf(<<"x", "@", "@">>)
          /\ Idle) =>
           /\ actions = Pulse("BACK") \o Pulse("BACK") \o Copy(<<"a@b.com">>)
                          \o PasteCombination
           /\ pasted = << <<"a@b.com">> >>
           /\ buffer = <<>>

\* C4 witness: x, @, @ handled with the table {"@@": "a@b.com"}, and the
\* replacement performed.
ImmediateFireWitness ==
    /\ replacements = TableAtAt
    /\ DispatchedKeys = KeysOf(<<"x", "@", "@">>)
    /\ Idle
    /\ Len(fired) = 1

\* The run typed the single trigger of the table and then a space, and all
\* of it has been handled.
TypedTriggerThenSpace ==
    /\ Len(replacements) = 1
    /\ typed = KeysOf(replacements[1].shortcut \o <<" ">>)
    /\ DispatchedKeys = typed
    /\ Idle

\* The actions of one replacement of a trigger by a text.
EraseThenInsert(trigger, text) ==
    /\ actions = BackspacePulses(Len(trigger)) \o Copy(text) \o PasteCombination
    /\ pasted = <<text>>
    /\ buffer = <<>>

\* C5 as stated: for the single entry T -> E (T not empty, as every trigger
\* of the data model) and the input T then space, the actions are Len(T)
\* backspace pulses, then one insertion of E, and the buffer is empty.
EraseThenInsertAsStated ==
    (TypedTriggerThenSpace /\ replacements[1].shortcut # <<>>) =>
        EraseThenInsert(replacements[1].shortcut, replacements[1].replacement)

\* C5 amended: the same, for a trigger that is not empty, holds no space,
\* tab or newline and fits the buffer; the text inserted is E, but the date
\* or time of the moment the replacement fired for "today" and "time".
EraseThenInsertAmended ==
    LET T == replacements[1].shortcut
        E == replacements[1].replacement
    IN ( /\ TypedTriggerThenSpace
         /\ T # <<>>
         /\ Len(T) <= max_buffer_length
         /\ \A i \in 1..Len(T) : ~IsSpace(T[i]) ) =>
           \E text \in IF T = T_today THEN { StrftimeDate(c) : c \in 0..clock }
                        ELSE IF T = T_time THEN { StrftimeTime(c) : c \in 0..clock }
                        ELSE { E } :
               EraseThenInsert(T, text)

\* C5 witness: t, g, i, f, space handled with the table {"tgif": ...}.
EraseThenInsertWitness ==
    /\ TypedTriggerThenSpace
    /\ replacements[1].shortcut = T_tgif
    /\ pasted = << <<"Thank God It's Friday!">> >>
    /\ Len(actions) = 13

\* C6 as stated: after on_press has handled a space, enter or tab key the
\* buffer is empty.
BufferClearsAfterBoundary ==
    ( /\ dispatched # <<>>
      /\ IsWordBoundary(dispatched[Len(dispatched)].key)
      /\ Idle ) => buffer = <<>>

\* C7 as stated: a printable key that fires nothing followed by a backspace
\* key leaves the buffer as it was before the two (here: the characters of
\* the printable keys handled before them).
AppendTrimRoundTrip ==
    LET n == Len(dispatched)
    IN ( /\ n >= 2
         /\ n <= max_buffer_length
         /\ fired = <<>>
         /\ dispatched[n].key = Key("backspace")
         /\ \A k \in 1..(n - 1) : IsPrintable(dispatched[k].key)
         /\ Idle ) =>
           buffer = SubSeq(DispatchedChars, 1, n - 2)

\* C8: the text a replacement of "today" or "time" hands to the clipboard is
\* the date or time of the clock at the moment it fires, whatever string the
\* table stores for it.
DynamicAtFireTime ==
    [][ Len(fired') > Len(fired) =>
          LET f == fired'[Len(fired')]
          IN /\ (f.shortcut = T_today) => (f.text = StrftimeDate(clock))
             /\ (f.shortcut = T_time) => (f.text = StrftimeTime(clock))
             /\ (f.shortcut \notin {T_today, T_time}) =>
                   (f.text = f.table[f.index].replacement)
             /\ clipboard' = f.text
      ]_vars

\* C8 witness: "today" fired twice, on two dates, with two texts, neither
\* of them the stored string.
DynamicWitness ==
    /\ Len(fired) = 2
    /\ fired[1].shortcut = T_today
    /\ fired[2].shortcut = T_today
    /\ fired[1].text # fired[2].text
    /\ fired[2].text = StrftimeDate(clock)
    /\ fired[2].text # fired[2].table[fired[2].index].replacement

\* C9: while the dialog holds a shortcut that is empty once stripped, no
\* step changes the table or the configuration file: OK gives no result.
EmptyTriggerRejected ==
    [][ (dialog.open /\ Strip(dialog.shortcut_var) = <<>>) =>
          /\ replacements' = replacements
          /\ config_file' = config_file
      ]_vars

\* C9 witness: OK was clicked on a blank shortcut with a replacement text,
\* and the dialog answered with its warning.
EmptyTriggerWitness ==
    /\ dialog.open
    /\ dialog.shortcut_var = <<" ">>
    /\ dialog.replacement_text = <<"Z">>
    /\ dialog.warning = "Shortcut cannot be empty."

\* C10 as stated: no on_press runs while the engine is stopped.
StopIsFinal == \A k \in 1..Len(dispatched) : dispatched[k].running

\* C11 as stated: the handlers never overlap, and no key event is dispatched
\* more than once: at most one listener is inside on_press at a time, and
\* there are no more dispatches than key events.
SerialDispatch ==
    /\ Cardinality({ l \in 1..Len(listeners) : listeners[l].pc # "idle" }) <= 1
    /\ Len(dispatched) <= Len(typed)

NoDuplicates(table) ==
    \A i, j \in 1..Len(table) : table[i].shortcut = table[j].shortcut => i = j

\* C12: no trigger is ever in the table twice; and a step that closes the
\* dialog on the shortcut of an entry of the table (add, or edit of that
\* very entry) leaves the triggers and their order as they were and changes
\* no other entry; the entry itself keeps its expansion (cancel, or the
\* confirmation declined) or takes the text of the dialog.
UpsertInPlace ==
    /\ []NoDuplicates(replacements)
    /\ [][ LET s == Strip(dialog.shortcut_var)
           IN ( /\ dialog.open
                /\ ~dialog'.open
                /\ s \in Shortcuts(replacements)
                /\ (dialog.mode = "edit") => (s = dialog.shortcut) ) =>
                  /\ ShortcutSeq(replacements') = ShortcutSeq(replacements)
                  /\ \A i \in 1..Len(replacements) :
                        IF replacements[i].shortcut # s
                        THEN replacements'[i] = replacements[i]
                        ELSE replacements'[i].replacement \in
                                { replacements[i].replacement,
                                  Strip(dialog.replacement_text) }
         ]_vars

\* C12 witness: the first of the two entries ab, b was written again, with
\* the text Z, and is still the first.
UpsertInPlaceWitness ==
    /\ ~dialog.open
    /\ gui_ops = 1
    /\ replacements = << Entry(<<"a", "b">>, <<"Z">>), Entry(<<"b">>, <<"Y">>) >>
    /\ config_file = JsonFile(replacements)

Min(S) == CHOOSE i \in S : \A j \in S : i <= j

\* C13: a call to the platform or to the clipboard that fails during a
\* replacement is not fatal: the exception is caught, every listener stays
\* alive, on_press returns with the keys that wait untouched (it goes on to
\* the paste when it was the read of the clipboard that failed), and from
\* then on keys are buffered and matched as before: a printable key is
\* appended to the buffer, the scan fires the first entry whose trigger is
\* a suffix of the buffer, and ends without firing only when none is.
FaultsNotFatal ==
    [][ /\ \A l \in 1..Len(listeners') : listeners'[l].alive
        /\ Len(raised') > Len(raised) =>
              LET x == raised'[Len(raised')]
              IN /\ x.caught
                 /\ (x.listener # 0) =>
                       /\ listeners'[x.listener].queue = listeners[x.listener].queue
                       /\ listeners'[x.listener].pc =
                             IF x.call = "paste" THEN "paste" ELSE "idle"
        /\ raised # <<>> =>
              /\ Len(dispatched') > Len(dispatched) =>
                    LET key == dispatched'[Len(dispatched')].key
                    IN buffer' = IF IsPrintable(key)
                                 THEN AppendChar(buffer, key.char)
                                 ELSE buffer
              /\ Len(fired') > Len(fired) =>
                    LET f == fired'[Len(fired')]
                    IN /\ Matching(buffer, replacements) # {}
                       /\ f.index = Min(Matching(buffer, replacements))
                       /\ f.text = ResolveReplacement(f.shortcut,
                                       replacements[f.index].replacement, clock)
              /\ \A l \in 1..Len(listeners) :
                    ( /\ listeners[l].pc = "scan"
                      /\ listeners'[l].pc = "idle"
                      /\ raised' = raised ) =>
                        Matching(buffer, replacements) = {}
      ]_vars

\* C13 witness: a keybd_event raised during one replacement, and a key
\* handled after it fired a replacement that was pasted.
FaultsNotFatalWitness ==
    /\ Idle
    /\ pasted # <<>>
    /\ \E r \in 1..Len(raised), f \in 1..Len(fired) :
          /\ raised[r].call = "keybd_event"
          /\ fired[f].n > raised[r].n
          /\ pasted[Len(pasted)] = fired[f].text
          /\ listeners[fired[f].listener].alive

\* C14: a replacement empties the buffer when it begins, before any
\* platform action; every platform action of it (backspace, copy, paste)
\* is issued on an empty buffer; and the buffer is empty when the
\* replacement returns, whether or not a call failed.
ClearBeforeAct ==
    [][ /\ Len(fired') > Len(fired) => (buffer' = <<>> /\ actions' = actions)
        /\ actions' # actions => (buffer = <<>> /\ buffer' = <<>>)
        /\ \A l \in 1..Len(listeners) :
              ( /\ listeners[l].pc \in { "erase", "paste" }
                /\ listeners'[l].pc = "idle" ) => buffer' = <<>>
      ]_vars

\* C14 witness: the replacement of a trigger of two characters failed
\* part-way, on the second backspace pulse, and has returned.
ClearBeforeActWitness ==
    /\ Idle
    /\ Len(fired) = 1
    /\ Len(fired[1].shortcut) = 2
    /\ Len(raised) = 1
    /\ raised[1].call = "keybd_event"
    /\ actions = BackspacePulses(1)
    /\ buffer = <<>>

\* C15 as stated: no replacement fires for an empty trigger.
NoEmptyTriggerFires == \A k \in 1..Len(fired) : fired[k].shortcut # <<>>

\* Every trigger of the table has a character, as the data model wants.
NonEmptyTriggers ==
    \A i \in 1..Len(replacements) : replacements[i].shortcut # <<>>

\* C16 as stated: at most one replacement is in flight, from the snapshot
\* of the clipboard to the run of its restore thread.
SingleFlight ==
    NonEmptyTriggers =>
        Cardinality({ l \in 1..Len(listeners) : listeners[l].pc = "paste" })
            + Len(restores) <= 1

\* C17 as stated: once every replacement has returned and every restore
\* thread has run, the clipboard holds what it held before the first
\* replacement.
ClipboardRestored ==
    (NonEmptyTriggers /\ fired # <<>> /\ Idle /\ restores = <<>>) =>
        clipboard = <<"user">>

\* C18 as stated: a replacement whose read of the clipboard failed never
\* changes the clipboard.
ClipboardUntouchedOnReadFailure ==
    ( /\ NonEmptyTriggers
      /\ Len(fired) = 1
      /\ Len(raised) = 1
      /\ raised[1].call = "paste" ) => clipboard = <<"user">>

\* C19 as stated: what each paste combination pastes is the text of the
\* replacement that issued it.
PasteIntegrity ==
    NonEmptyTriggers => \A k \in 1..Len(pasted) : pasted[k] = fired[k].text

\* C20 as stated: no change of the table during a scan ends the listener.
ScanSurvivesMutation ==
    /\ \A l \in 1..Len(listeners) : listeners[l].alive
    /\ \A k \in 1..Len(raised) : raised[k].caught

IsSuffix(a, b) ==
    Len(a) <= Len(b) /\ SubSeq(b, Len(b) - Len(a) + 1, Len(b)) = a

\* Entry j of the table is shadowed: another trigger is a suffix of a proper
\* non-empty prefix of its trigger, or is a proper suffix of its trigger and
\* comes before it in the table.
Shadowed(table, j) ==
    LET B == table[j].shortcut
    IN \E i \in 1..Len(table) :
          LET A == table[i].shortcut
          IN /\ i # j
             /\ \/ \E p \in 1..(Len(B) - 1) : IsSuffix(A, SubSeq(B, 1, p))
                \/ (Len(A) < Len(B) /\ IsSuffix(A, B) /\ i < j)

\* C21: whatever keys are typed, with the table the engine was loaded
\* with, no replacement ever fires for a shadowed entry.
ShadowedNeverFires ==
    \A k \in 1..Len(fired) : ~Shadowed(fired[k].table, fired[k].index)

\* C21 witness: with the table ab, a the keys a, b have been handled; the
\* a fired the entry a, which emptied the buffer, and ab did not fire.
ShadowedNeverFiresWitness ==
    /\ replacements = << Entry(<<"a", "b">>, <<"X">>), Entry(<<"a">>, <<"W">>) >>
    /\ Shadowed(replacements, 1)
    /\ DispatchedKeys = KeysOf(<<"a", "b">>)
    /\ Idle
    /\ Len(fired) = 1
    /\ fired[1].shortcut = <<"a">>
    /\ buffer = <<"b">>

====
